---- MODULE Spec2Model ----
(***************************************************************************)
(* Model of project.py: dijkstra (lines 32-47), get_path (lines 49-60) and *)
(* DijkstraGUI.run_dijkstra (lines 134-150), over the adjacency dict       *)
(* GRAPH_DATA (lines 19-27) and over all small adjacency dicts.            *)
(*                                                                         *)
(* A dict is a function whose values are the sequence of its items in      *)
(* insertion order; float('inf') is the value Inf, compared by Less; the   *)
(* heapq list is the set of its tuples (dijkstra never pushes one tuple    *)
(* twice: each push strictly lowers distances[v]) and heappop removes the  *)
(* least tuple under Python's order on (int, str).  One pop (lines 38-40)  *)
(* and one inner-loop iteration (lines 41-46) are one step each; pops      *)
(* records every popped tuple.                                             *)
(*                                                                         *)
(* Spec        one call of dijkstra on a small graph                       *)
(* SpecTwice   two calls of dijkstra in a row                              *)
(* SpecGui     one click of "Find Shortest Path" on a small graph          *)
(* SpecRef     one click on GRAPH_DATA, unknown node names included        *)
(* SpecGetPath get_path on every table dijkstra can build                  *)
(***************************************************************************)
EXTENDS Integers, Sequences, FiniteSets, TLC

VARIABLES graph, start_var, target_var, pc, source, distances, prev, heap,
          u, dist_u, items, pops, outcome, calls, first

vars == <<graph, start_var, target_var, pc, source, distances, prev, heap,
          u, dist_u, items, pops, outcome, calls, first>>

(* ------------------------------ bounds --------------------------------- *)
\* graphs of one call and of one click: keys, entries in all, weights
NumNodes == 3
MaxEdges == 3
MaxWeight == 1
\* graphs of two calls in a row: keys, entries in all
TwiceNodes == 4
TwiceEdges == 4

(* ------------------------------ values --------------------------------- *)
Inf == -1
None == "None"
Unknown == "Nowhere"

\* Python's order on the str values used as node names.
SortedNames == <<"Bhadohi", "Ghazipur", "Jaunpur", "Mirzapur", "Nowhere",
                 "Prayagraj", "Sarnath", "Varanasi", "a", "b", "c", "d", "e">>

Rank(n) == CHOOSE i \in 1..Len(SortedNames) : SortedNames[i] = n

\* a < b on floats, float('inf') included
Less(a, b) == a # Inf /\ (b = Inf \/ a < b)

\* the order of a heap that pops its largest tuple
TupleGreater(e, f) == e[1] > f[1] \/ (e[1] = f[1] /\ Rank(e[2]) > Rank(f[2]))

\* (d1, n1) < (d2, n2) on heap tuples
TupleLess(e, f) == e[1] < f[1] \/ (e[1] = f[1] /\ Rank(e[2]) < Rank(f[2]))

(* ------------------------------ graphs --------------------------------- *)
GRAPH_DATA ==
  [n \in {"Varanasi", "Sarnath", "Prayagraj", "Jaunpur", "Mirzapur",
          "Ghazipur", "Bhadohi"} |->
    CASE n = "Varanasi"  -> << <<"Sarnath", 10>>, <<"Prayagraj", 125>>,
                               <<"Jaunpur", 55>>, <<"Mirzapur", 75>>,
                               <<"Ghazipur", 70>>, <<"Bhadohi", 40>> >>
      [] n = "Sarnath"   -> << <<"Varanasi", 10>>, <<"Jaunpur", 65>>,
                               <<"Ghazipur", 80>> >>
      [] n = "Prayagraj" -> << <<"Varanasi", 125>>, <<"Mirzapur", 90>> >>
      [] n = "Jaunpur"   -> << <<"Varanasi", 55>>, <<"Sarnath", 65>>,
                               <<"Ghazipur", 70>> >>
      [] n = "Mirzapur"  -> << <<"Varanasi", 75>>, <<"Prayagraj", 90>>,
                               <<"Bhadohi", 60>> >>
      [] n = "Ghazipur"  -> << <<"Varanasi", 70>>, <<"Jaunpur", 70>> >>
      [] n = "Bhadohi"   -> << <<"Varanasi", 40>>, <<"Mirzapur", 60>> >> ]

\* The small adjacency dicts: the first names of NodeNames as keys, a
\* bounded number of entries u -> v (u # v) in all, weights 0..MaxWeight;
\* the items of a key are in the order of NodeNames.
NodeNames == <<"a", "b", "c", "d", "e">>
Node == {NodeNames[i] : i \in 1..NumNodes}
TwiceNode == {NodeNames[i] : i \in 1..TwiceNodes}
Weight == 0..MaxWeight
ZeroOrMax == {0, MaxWeight}
Pairs(keys) == {p \in keys \X keys : p[1] # p[2]}

RECURSIVE ItemsFrom(_, _, _)
ItemsFrom(f, n, i) ==
  IF i > Len(NodeNames) THEN <<>>
  ELSE IF <<n, NodeNames[i]>> \in DOMAIN f
       THEN <<<<NodeNames[i], f[<<n, NodeNames[i]>>]>>>> \o ItemsFrom(f, n, i + 1)
       ELSE ItemsFrom(f, n, i + 1)

MkGraph(keys, f) == [n \in keys |-> ItemsFrom(f, n, 1)]

\* g is one of the small adjacency dicts
SmallGraph(g, keys, maxEdges, weights) ==
  \E P \in SUBSET Pairs(keys) :
     /\ Cardinality(P) <= maxEdges
     /\ \E f \in [P -> weights] : g = MkGraph(keys, f)

\* graph[n].items(), `v in graph[n]` and graph[n][v]
Items(g, n) == g[n]
HasEdge(g, n, v) == \E i \in 1..Len(g[n]) : g[n][i][1] = v
EdgeWeight(g, n, v) == g[n][CHOOSE i \in 1..Len(g[n]) : g[n][i][1] = v][2]

(* ----------------------------- dijkstra -------------------------------- *)
\* a pop that compares the distances alone and takes any tuple of the least
HeapMinByDistance(h) == {e \in h : \A f \in h : e[1] <= f[1]}

\* line 38: the tuples heappop may return
HeapMin(h) == {e \in h : \A f \in h : e = f \/ TupleLess(e, f)}

\* dist_u >= distances[u]
IsStaleOrEqual(d, cur) == ~Less(d, cur)

\* line 39
IsStale(d, cur) == Less(cur, d)

\* alt = dist_u + 1: hops counted, weights ignored
AltHops(d, w) == d + 1

\* line 42
Alt(d, w) == d + w

\* alt <= distances[v]
ImprovesOrEqual(alt, cur) == ~Less(cur, alt)

\* line 43
Improves(alt, cur) == Less(alt, cur)

\* lines 33-36
DijkstraEntry(s) ==
  /\ source' = s
  /\ distances' = [n \in DOMAIN graph \cup {s} |-> IF n = s THEN 0 ELSE Inf]
  /\ prev' = [n \in DOMAIN graph |-> None]
  /\ heap' = {<<0, s>>}
  /\ pops' = <<>>
  /\ pc' = "while"

\* lines 37-40: a stale tuple is popped and dropped
PopStale ==
  /\ pc = "while"
  /\ \E e \in HeapMin(heap) :
       /\ IsStale(e[1], distances[e[2]])
       /\ heap' = heap \ {e}
       /\ pops' = Append(pops, [node |-> e[2], d |-> e[1],
                                cur |-> distances[e[2]], stale |-> TRUE])
  /\ UNCHANGED <<graph, start_var, target_var, pc, source, distances, prev,
                 u, dist_u, items, outcome, calls, first>>

\* lines 37-41: a tuple is popped and its node's items are about to be
\* relaxed; graph[u] raises KeyError when u is no key of graph
PopExpand ==
  /\ pc = "while"
  /\ \E e \in HeapMin(heap) :
       /\ ~IsStale(e[1], distances[e[2]])
       /\ heap' = heap \ {e}
       /\ u' = e[2]
       /\ dist_u' = e[1]
       /\ pops' = Append(pops, [node |-> e[2], d |-> e[1],
                                cur |-> distances[e[2]], stale |-> FALSE])
       /\ IF e[2] \in DOMAIN graph
          THEN /\ items' = Items(graph, e[2])
               /\ pc' = "for"
               /\ outcome' = outcome
          ELSE /\ items' = <<>>
               /\ pc' = "done"
               /\ outcome' = [kind |-> "KeyError", path |-> <<>>, distance |-> Inf]
  /\ UNCHANGED <<graph, start_var, target_var, source, distances, prev,
                 calls, first>>

\* lines 41-46: one item (v, w) of graph[u]
Relax ==
  /\ pc = "for"
  /\ items # <<>>
  /\ LET v == Head(items)[1]
         w == Head(items)[2]
         alt == Alt(dist_u, w)
     IN IF Improves(alt, distances[v])
        THEN /\ distances' = [distances EXCEPT ![v] = alt]
             /\ prev' = [prev EXCEPT ![v] = u]
             /\ heap' = heap \cup {<<alt, v>>}
        ELSE UNCHANGED <<distances, prev, heap>>
  /\ items' = Tail(items)
  /\ UNCHANGED <<graph, start_var, target_var, pc, source, u, dist_u, pops,
                 outcome, calls, first>>

\* line 41: the items of graph[u] are exhausted
ForEnd ==
  /\ pc = "for"
  /\ items = <<>>
  /\ pc' = "while"
  /\ UNCHANGED <<graph, start_var, target_var, source, distances, prev, heap,
                 u, dist_u, items, pops, outcome, calls, first>>

\* lines 37, 47: the heap is empty, dijkstra returns (distances, prev)
Return ==
  /\ pc = "while"
  /\ heap = {}
  /\ pc' = "returned"
  /\ UNCHANGED <<graph, start_var, target_var, source, distances, prev, heap,
                 u, dist_u, items, pops, outcome, calls, first>>

Dijkstra == PopStale \/ PopExpand \/ Relax \/ ForEnd \/ Return

(* ----------------------------- get_path -------------------------------- *)
\* What get_path yields: a list, None, or no return at all
PyList(p) == [kind |-> "list", nodes |-> p]
PyNone == [kind |-> "None", nodes |-> <<>>]
Diverges == [kind |-> "diverges", nodes |-> <<>>]

RECURSIVE Reverse(_)
Reverse(s) == IF s = <<>> THEN <<>> ELSE Append(Reverse(Tail(s)), Head(s))

\* lines 52-56: the nodes appended while u is not None.  A walk that has
\* appended more nodes than the table has keys is inside a cycle of the
\* table and never ends; it is cut there and reported with loops = TRUE.
RECURSIVE Walk(_, _, _)
Walk(p, x, path) ==
  IF x = None THEN [loops |-> FALSE, nodes |-> path]
  ELSE IF Len(path) > Cardinality(DOMAIN p) THEN [loops |-> TRUE, nodes |-> path]
  ELSE Walk(p, p[x], Append(path, x))

\* line 50
NoPredecessor(p, s, t) == p[t] = None /\ s # t

\* lines 57-60
Finish(path, s) == IF path[1] = s THEN PyList(path) ELSE PyNone

\* get_path without path.reverse()
GetPathUnreversed(p, s, t) ==
  IF NoPredecessor(p, s, t) THEN PyNone
  ELSE LET w == Walk(p, t, <<>>)
       IN IF w.loops THEN Diverges ELSE Finish(w.nodes, s)

\* lines 49-60
GetPath(p, s, t) ==
  IF NoPredecessor(p, s, t) THEN PyNone
  ELSE LET w == Walk(p, t, <<>>)
       IN IF w.loops THEN Diverges ELSE Finish(Reverse(w.nodes), s)

(* --------------------------- run_dijkstra ------------------------------ *)
NoOutcome == [kind |-> "none", path |-> <<>>, distance |-> Inf]

\* distances[target] is float('inf'): never true of two float objects
IsInfIdentity(d) == FALSE

\* line 142
IsInf(d) == d = Inf

\* lines 137-140: "Start and Target are same: distance 0."
RunSame ==
  /\ pc = "click"
  /\ start_var = target_var
  /\ outcome' = [kind |-> "same", path |-> <<start_var>>, distance |-> 0]
  /\ pc' = "done"
  /\ UNCHANGED <<graph, start_var, target_var, source, distances, prev, heap,
                 u, dist_u, items, pops, calls, first>>

\* line 141: the call of dijkstra(self.graph_data, start)
RunCall ==
  /\ pc = "click"
  /\ start_var # target_var
  /\ DijkstraEntry(start_var)
  /\ UNCHANGED <<graph, start_var, target_var, u, dist_u, items, outcome,
                 calls, first>>

\* lines 142-150: distances[target] raises KeyError for a target that is no
\* key; ' -> '.join(None) raises TypeError
RunShow ==
  /\ pc = "returned"
  /\ outcome' =
       IF target_var \notin DOMAIN distances
       THEN [kind |-> "KeyError", path |-> <<>>, distance |-> Inf]
       ELSE IF IsInf(distances[target_var])
       THEN [kind |-> "nopath", path |-> <<>>, distance |-> Inf]
       ELSE LET path == GetPath(prev, start_var, target_var)
            IN IF path.kind = "list"
               THEN [kind |-> "result", path |-> path.nodes,
                     distance |-> distances[target_var]]
               ELSE [kind |-> IF path.kind = "None" THEN "TypeError" ELSE "diverges",
                     path |-> <<>>, distance |-> Inf]
  /\ pc' = "done"
  /\ UNCHANGED <<graph, start_var, target_var, source, distances, prev, heap,
                 u, dist_u, items, pops, calls, first>>

(* --------------------------- specifications ---------------------------- *)
\* The locals before any call
NoLocals ==
  /\ source = None
  /\ distances = <<>>
  /\ prev = <<>>
  /\ heap = {}
  /\ u = None
  /\ dist_u = 0
  /\ items = <<>>
  /\ pops = <<>>
  /\ outcome = NoOutcome
  /\ calls = 0
  /\ first = <<>>

\* dijkstra(graph, s) called on a small graph with a key s
Init ==
  /\ SmallGraph(graph, Node, MaxEdges, Weight)
  /\ start_var \in Node
  /\ target_var = start_var
  /\ pc = "call"
  /\ NoLocals

Call ==
  /\ pc = "call"
  /\ calls = 0
  /\ first' = [graph |-> graph, distances |-> <<>>, prev |-> <<>>]
  /\ DijkstraEntry(start_var)
  /\ calls' = 1
  /\ UNCHANGED <<graph, start_var, target_var, u, dist_u, items, outcome>>

Next == Call \/ Dijkstra

Spec == Init /\ [][Next]_vars

\* dijkstra(graph, s) called twice in a row: on a small graph whose weights
\* are 0 or MaxWeight, or on a graph wide enough for two equally long paths
\* through different nodes, all of whose weights are MaxWeight
InitTwice ==
  /\ \/ SmallGraph(graph, Node, MaxEdges, ZeroOrMax)
     \/ SmallGraph(graph, TwiceNode, TwiceEdges, {MaxWeight})
  /\ start_var \in DOMAIN graph
  /\ target_var = start_var
  /\ pc = "call"
  /\ NoLocals

CallAgain ==
  /\ pc = "returned"
  /\ calls = 1
  /\ first' = [first EXCEPT !.distances = distances, !.prev = prev]
  /\ DijkstraEntry(start_var)
  /\ calls' = 2
  /\ UNCHANGED <<graph, start_var, target_var, u, dist_u, items, outcome>>

NextTwice == Call \/ CallAgain \/ Dijkstra

SpecTwice == InitTwice /\ [][NextTwice]_vars

\* One click of "Find Shortest Path" on a small graph
InitGui ==
  /\ SmallGraph(graph, Node, MaxEdges, Weight)
  /\ start_var \in Node
  /\ target_var \in Node
  /\ pc = "click"
  /\ NoLocals

NextGui == RunSame \/ RunCall \/ Dijkstra \/ RunShow

SpecGui == InitGui /\ [][NextGui]_vars

\* One click on the reference graph (main, line 160); the two StringVars
\* hold a key of the graph or a name that is no key
InitRef ==
  /\ graph = GRAPH_DATA
  /\ start_var \in DOMAIN GRAPH_DATA \cup {Unknown}
  /\ target_var \in DOMAIN GRAPH_DATA \cup {Unknown}
  /\ pc = "click"
  /\ NoLocals

SpecRef == InitRef /\ [][NextGui]_vars

\* get_path(prev, start, target) on the tables dijkstra can build over the
\* small node set: one root r with prev[r] = None, every other entry None
\* or the first link of a chain that ends at r.
RECURSIVE Root(_, _, _)
Root(p, x, fuel) ==
  IF p[x] = None THEN x ELSE IF fuel = 0 THEN None ELSE Root(p, p[x], fuel - 1)

PrevTables ==
  {p \in [Node -> Node \cup {None}] :
     \E r \in Node : \A v \in Node : p[v] = None \/ Root(p, v, NumNodes) = r}

InitGetPath ==
  /\ graph = [n \in Node |-> <<>>]
  /\ start_var \in Node
  /\ target_var \in Node
  /\ pc = "get_path"
  /\ source = None
  /\ distances = <<>>
  /\ prev \in PrevTables
  /\ heap = {}
  /\ u = None
  /\ dist_u = 0
  /\ items = <<>>
  /\ pops = <<>>
  /\ outcome = NoOutcome
  /\ calls = 0
  /\ first = <<>>

ApplyGetPath ==
  /\ pc = "get_path"
  /\ LET path == GetPath(prev, start_var, target_var)
     IN outcome' = [kind |-> path.kind, path |-> path.nodes, distance |-> Inf]
  /\ pc' = "done"
  /\ UNCHANGED <<graph, start_var, target_var, source, distances, prev, heap,
                 u, dist_u, items, pops, calls, first>>

SpecGetPath == InitGetPath /\ [][ApplyGetPath]_vars

(* ------------------- reference values for the claims ------------------- *)
Last(s) == s[Len(s)]
Nodes(s) == {s[i] : i \in 1..Len(s)}

\* Every path of g from s that repeats no node, by enumeration
RECURSIVE Extend(_, _, _)
Extend(g, frontier, all) ==
  IF frontier = {} THEN all
  ELSE LET more == UNION { {Append(p, v) : v \in {x \in DOMAIN g :
                               HasEdge(g, Last(p), x) /\ x \notin Nodes(p)}} :
                           p \in frontier }
       IN Extend(g, more, all \cup more)

SimplePaths(g, s) == Extend(g, {<<s>>}, {<<s>>})

RECURSIVE PathWeight(_, _)
PathWeight(g, p) ==
  IF Len(p) < 2 THEN 0
  ELSE EdgeWeight(g, p[1], p[2]) + PathWeight(g, Tail(p))

IsPath(g, p) == \A i \in 1..(Len(p) - 1) : HasEdge(g, p[i], p[i + 1])

\* The least weight of a path among paths that ends at v, Inf when none does
LeastWeight(g, paths, v) ==
  LET ws == {PathWeight(g, p) : p \in {q \in paths : Last(q) = v}}
  IN IF ws = {} THEN Inf ELSE CHOOSE w \in ws : \A x \in ws : w <= x

Keys == DOMAIN graph
Expansions == SelectSeq(pops, LAMBDA r : ~r.stale)

(* ------------------------------- claims -------------------------------- *)

\* C1: when dijkstra(graph, s) returns, distances[s] = 0 and distances[v]
\* is the least total weight of a path from s to v found by enumerating the
\* paths, for every reachable v, and +infinity for every unreachable v.
C1_ShortestDistances ==
  (pc = "returned" /\ source \in Keys) =>
    LET paths == SimplePaths(graph, source)
    IN /\ DOMAIN distances = Keys
       /\ distances[source] = 0
       /\ \A v \in Keys : distances[v] = LeastWeight(graph, paths, v)

\* dijkstra has returned; a two-edge detour beat a direct edge
C1_Witness ==
  /\ pc = "returned"
  /\ \E v \in Keys : /\ HasEdge(graph, source, v)
                     /\ distances[v] < EdgeWeight(graph, source, v)
                     /\ prev[v] # source

\* C2: for every target t reachable from s, get_path on the prev table
\* dijkstra returned is a list from s to t along edges of the graph whose
\* weights sum to distances[t].
C2_PathIsShortest ==
  pc = "returned" =>
    \A t \in Keys :
      distances[t] # Inf =>
        LET r == GetPath(prev, source, t)
        IN /\ r.kind = "list"
           /\ r.nodes[1] = source
           /\ Last(r.nodes) = t
           /\ IsPath(graph, r.nodes)
           /\ PathWeight(graph, r.nodes) = distances[t]

\* dijkstra has returned a table on which get_path yields a list of three
\* nodes or more
C2_Witness ==
  /\ pc = "returned"
  /\ \E t \in Keys : /\ distances[t] # Inf
                     /\ Len(GetPath(prev, source, t).nodes) >= 3

\* C3 as claimed: get_path(prev, s, s) is [s] whatever the table holds.
C3_SameNodeAnyTable ==
  (pc = "done" /\ start_var = target_var) =>
     (outcome.kind = "list" /\ outcome.path = <<start_var>>)

\* C4 as claimed: a query naming a node that is no key of the graph ends in
\* the unknown-node error (the KeyError of the dict lookup), start == target
\* included.
C4_UnknownNodeRaises ==
  (pc = "done" /\ (start_var \notin Keys \/ target_var \notin Keys)) =>
     outcome.kind = "KeyError"

\* C5: for start # target with no path from start to target, dijkstra
\* leaves distances[target] at +infinity, get_path on its table is None,
\* and run_dijkstra reports "no path": no distance, no path, and not the
\* same-node outcome.
C5_NoPath ==
  (/\ start_var \in Keys
   /\ target_var \in Keys
   /\ start_var # target_var
   /\ pc \in {"returned", "done"}
   /\ LeastWeight(graph, SimplePaths(graph, start_var), target_var) = Inf) =>
     /\ distances[target_var] = Inf
     /\ GetPath(prev, start_var, target_var) = PyNone
     /\ pc = "done" => outcome = [kind |-> "nopath", path |-> <<>>, distance |-> Inf]

\* run_dijkstra reported "no path" for a target that has edges of its own
C5_Witness ==
  /\ pc = "done"
  /\ outcome.kind = "nopath"
  /\ start_var # target_var
  /\ graph[target_var] # <<>>
  /\ graph[start_var] # <<>>

\* C6 as claimed: every entry u -> v : w of the graph has the entry
\* v -> u : w.
C6_Undirected ==
  \A n \in Keys : \A v \in Keys :
     HasEdge(graph, n, v) =>
       (HasEdge(graph, v, n) /\ EdgeWeight(graph, v, n) = EdgeWeight(graph, n, v))

\* C7: on GRAPH_DATA the query Varanasi -> Prayagraj shows 125 along
\* [Varanasi, Prayagraj], Varanasi -> Bhadohi shows 40 along [Varanasi,
\* Bhadohi], Sarnath -> Bhadohi shows 50 along [Sarnath, Varanasi, Bhadohi].
C7_ReferenceQueries ==
  (pc = "done" /\ graph = GRAPH_DATA) =>
    /\ (start_var = "Varanasi" /\ target_var = "Prayagraj") =>
         outcome = [kind |-> "result", path |-> <<"Varanasi", "Prayagraj">>,
                    distance |-> 125]
    /\ (start_var = "Varanasi" /\ target_var = "Bhadohi") =>
         outcome = [kind |-> "result", path |-> <<"Varanasi", "Bhadohi">>,
                    distance |-> 40]
    /\ (start_var = "Sarnath" /\ target_var = "Bhadohi") =>
         outcome = [kind |-> "result",
                    path |-> <<"Sarnath", "Varanasi", "Bhadohi">>,
                    distance |-> 50]

\* the query Sarnath -> Bhadohi has been answered
C7_Witness ==
  /\ pc = "done"
  /\ graph = GRAPH_DATA
  /\ start_var = "Sarnath"
  /\ target_var = "Bhadohi"
  /\ outcome.kind = "result"

\* C8: a second call dijkstra(G, s) returns the distances and the prev
\* table of the first, entry for entry, and G is what it was before the
\* first call.
C8_SameTablesTwice ==
  /\ (pc = "returned" /\ calls >= 1) => graph = first.graph
  /\ (pc = "returned" /\ calls = 2) =>
        (distances = first.distances /\ prev = first.prev)

\* the second call has returned on a graph where two equally long paths
\* lead to one node
C8_Witness ==
  /\ pc = "returned"
  /\ calls = 2
  /\ \E v \in Keys : \E x \in Keys :
        /\ prev[v] \notin {None, x}
        /\ HasEdge(graph, x, v)
        /\ distances[x] # Inf
        /\ distances[x] + EdgeWeight(graph, x, v) = distances[v]
        /\ distances[x] = distances[prev[v]]

\* C9: no node is expanded twice, the distances at which nodes are
\* expanded never decrease, an expanded node keeps the distance it was
\* expanded at, every other popped tuple (d, u) had d > distances[u], and
\* when dijkstra returns every reachable node has been expanded.
C9_LabelSetting ==
  /\ \A j \in 1..Len(pops) :
       IF pops[j].stale
       THEN pops[j].d > pops[j].cur
       ELSE /\ pops[j].d = pops[j].cur
            /\ distances[pops[j].node] = pops[j].d
            /\ \A i \in 1..(j - 1) :
                  ~pops[i].stale =>
                     (pops[i].node # pops[j].node /\ pops[i].d <= pops[j].d)
  /\ pc = "returned" =>
       LET paths == SimplePaths(graph, source)
       IN \A v \in Keys :
            LeastWeight(graph, paths, v) # Inf =>
               \E i \in 1..Len(pops) : ~pops[i].stale /\ pops[i].node = v

\* dijkstra has returned after dropping a stale tuple and expanding three
\* nodes or more
C9_Witness ==
  /\ pc = "returned"
  /\ \E i \in 1..Len(pops) : pops[i].stale
  /\ Len(Expansions) >= 3

====
